---- MODULE Spec2Model ----
(***************************************************************************)
(* Face-liveness verification pipeline (Niketraj08/face_auth).             *)
(*                                                                         *)
(* The model covers the three React hooks and the component that wires     *)
(* them together:                                                          *)
(*   useFaceDetection     (src/src/App.jsx)             landmark source    *)
(*   useLivenessChecks    (src/src/CameraFeed.jsx)      action sequencer   *)
(*   useLivenessDetection (src/src/CameraFeed.jsx)      forensics, fusion  *)
(*   FaceLivenessDetector (src/src/FaceLivenessDetector.jsx)  attempts     *)
(*                                                                         *)
(* Numbers.  Times are milliseconds.  Eye-aspect ratios are hundredths.    *)
(* Scores, probabilities and confidences are integers in units of 1/Scale, *)
(* Scale being divisible by 2 and 3 so that the mean of three sub-scores   *)
(* and the halving of the fusion step are exact.  NaN is a separate value. *)
(***************************************************************************)
EXTENDS Integers, Sequences, FiniteSets, TLC

\* ---------------------------------------------------------------- bounds
MaxTicks == 9            \* the clock stops after this many ticks
MaxResets == 1           \* "Start verification" clicks
MaxClicks == 1           \* manual "Complete verification" clicks
MaxDwells == 8           \* dwell times the clock runs on after a failed attempt

\* ------------------------------------------------------ program constants
DwellMs == 500           \* CameraFeed.jsx:214
BlinkCapacity == 10      \* CameraFeed.jsx:142
BlinkThreshold == 25     \* CameraFeed.jsx:150  (0.25, in hundredths)
FaceHistoryCapacity == 5 \* CameraFeed.jsx:509
MotionMinPrior == 3
MotionCompared == 3      \* CameraFeed.jsx:408
InferenceTimeoutMs == 5000 \* CameraFeed.jsx:534

Tick == DwellMs \div 2   \* granularity of the modelled clock
Scale == 2 * 3 * 1000    \* the number 1.0
NaN == 0 - 1             \* the not-a-number value of a prediction
Infinity == Scale * Scale \* above every finite number of the model
Null == [null |-> TRUE]  \* JavaScript null / undefined for object values
NoTime == 0              \* falsy actionStartTime (null)

\* ------------------------------------------------------------- landmarks
(* A LandmarkSet is represented by the distances the detectors measure on *)
(* it: the averaged eye aspect ratio, the nose-to-ear distances and the   *)
(* mouth width and height.  NoFace is the "no face" result.               *)
NoFace == [face |-> FALSE]

Neutral  == [face |-> TRUE, ear |-> 30, leftDistance |-> 40, rightDistance |-> 40,
             mouthWidth |-> 20, mouthHeight |-> 10]
Blinking == [Neutral EXCEPT !.ear = 8]
TurnedL  == [Neutral EXCEPT !.leftDistance = 50, !.rightDistance = 30]
Smiling  == [Neutral EXCEPT !.mouthWidth = 40]

Faces == {Neutral, Blinking, TurnedL, Smiling}
Results == Faces \cup {NoFace}

\* Landmark sets over a range of nose-to-ear distances and of mouth sizes,
\* the degenerate ones (coinciding landmarks, distance 0) included.
Distances == {0, 10, 13, 30, 50}
TurnFaces == {[Neutral EXCEPT !.leftDistance = l, !.rightDistance = r] :
                l \in Distances, r \in Distances}
MouthFaces == {[Neutral EXCEPT !.mouthWidth = w, !.mouthHeight = h] :
                 w \in {0, 20, 25, 26, 40}, h \in {0, 10}}
GestureResults == TurnFaces \cup MouthFaces \cup {NoFace}

\* A landmark set on which all three gestures are seen at once.
Performing == [Blinking EXCEPT !.leftDistance = 50, !.rightDistance = 30,
                               !.mouthWidth = 40]
RetryResults == {Performing, NoFace}

VARIABLES
  now,                 \* Date.now()
  faceDetected,        \* useFaceDetection state
  faceLandmarks,
  frameLoop,           \* useFaceDetection: the FaceMesh instance and the frame loop
  lastExtraction,      \* history: the last extractFaceFromVideo call and what it returned
  dynamicCache,        \* sw.js: the status of the response stored per request, 0 for none
  lastFetch,           \* history: the last fetch event of the service worker
  blinkDetected,       \* useLivenessChecks state
  headTurnDetected,
  smileDetected,
  currentAction,
  actionProgress,
  actionStartTime,
  blinkHistory,        \* blinkHistoryRef.current
  headPositionHistory, \* headPositionHistoryRef.current
  isModelLoaded,       \* useLivenessDetection state
  modelInit,           \* position of initializeModel: "running" or "done"
  error,
  isLive,
  confidence,
  faceHistory,         \* faceHistoryRef.current: the attempt each stored crop was cloned in
  detectionResult,     \* FaceLivenessDetector state
  isProcessing,
  pc,                  \* position of the attempt in flight: "idle", "passive", "inference"
  passiveResult,       \* detectLiveness local: the result of detectSpoofing
  inferenceDeadline,   \* the time the timer of the Promise.race fires, NoTime without one
  liveTensors,         \* processedTensor and predictions tensors created and not disposed
  attempts,            \* history: number of detectLiveness calls that reached the history push
  launched,            \* history: runs of processLivenessDetection that passed its guard
                       \*          since the last reset (or the start)
  clicks,              \* history: number of "Complete verification" clicks
  lastRun,             \* history: inputs and result of the last detectLiveness return
  verdictLog,          \* history: every verdict returned so far, with its inputs
  released,            \* history: the face tensors disposed so far, in order
  sessionStart,        \* history: the number of crops pushed before the last reset
  lastForensics,       \* history: the tensor the last detectLiveness call was given,
                       \*          and the sub-scores and result of its detectSpoofing
  lastOp,              \* history: the last of "frame" and "reset" that ran
  lastFrame,           \* history: the landmark result of the last frame
  lastDetector,        \* history: what the current stage's detector returned in the last call
  stageEnteredAt,      \* history: the time the current stage was entered
  resets               \* history: number of "Start verification" clicks

checkVars == <<blinkDetected, headTurnDetected, smileDetected, currentAction,
               actionProgress, actionStartTime, blinkHistory, headPositionHistory>>
modelVars == <<isModelLoaded, modelInit>>
attemptVars == <<error, isLive, confidence, faceHistory, detectionResult, isProcessing,
                 pc, passiveResult, inferenceDeadline, liveTensors, attempts, launched,
                 lastRun, verdictLog, released, sessionStart, lastForensics>>
surroundingVars == <<frameLoop, lastExtraction, dynamicCache, lastFetch>>
vars == <<now, surroundingVars, faceDetected, faceLandmarks, checkVars, modelVars, attemptVars, clicks,
          lastOp, lastFrame, lastDetector, stageEnteredAt, resets>>

\* ------------------------------------------------------ useFaceDetection
\* App.jsx 167-201.  The component is mounted, FaceMesh is initialized and
\* startDetection has started processFrame: the instance is open and the next
\* processFrame is scheduled.
\* sw.js 52-79.  Requests for MediaPipe files on cdn.jsdelivr.net, and what
\* fetch(request) comes to: a response with a status, or a rejection.
CdnRequests == {"face_mesh.js", "face_mesh_solution_simd_wasm_bin.js",
                "face_mesh_solution_simd_wasm_bin.wasm", "face_mesh.binarypb"}
NotCached == 0
StatusOk == 200
StatusUnavailable == 503
NetworkOutcomes == {[ok |-> TRUE, status |-> 200], [ok |-> TRUE, status |-> 404],
                    [ok |-> TRUE, status |-> 500], [ok |-> FALSE, status |-> 0]}

SurroundingInit ==
  /\ frameLoop = [closed |-> FALSE, scheduled |-> TRUE, sentAfterClose |-> FALSE]
  /\ lastExtraction = [called |-> FALSE]
  /\ dynamicCache = [request \in CdnRequests |-> NotCached]
  /\ lastFetch = [handled |-> FALSE]

\* Variant: a result without a face leaves the previous landmarks in place.
onResults_stale(results) ==
  IF results # NoFace
    THEN [faceDetected |-> TRUE, faceLandmarks |-> results]
    ELSE [faceDetected |-> faceDetected, faceLandmarks |-> faceLandmarks]

\* onResults: the landmarks of the first face, or null when there is none.
onResults(results) ==
  IF results # NoFace
    THEN [faceDetected |-> TRUE, faceLandmarks |-> results]
    ELSE [faceDetected |-> FALSE, faceLandmarks |-> NoFace]

\* ----------------------------------------------------- gesture detectors
RECURSIVE SumSeq(_)
SumSeq(s) == IF s = <<>> THEN 0 ELSE Head(s) + SumSeq(Tail(s))

\* Variant: a full history drops the value just pushed.
PushBlink_dropsNewest(history, avgEAR) ==
  LET pushed == Append(history, avgEAR)
  IN IF Len(pushed) > BlinkCapacity THEN SubSeq(pushed, 1, BlinkCapacity) ELSE pushed

\* blinkHistoryRef after detectBlink pushed avgEAR (lines 141-144).
PushBlink(history, avgEAR) ==
  LET pushed == Append(history, avgEAR)
  IN IF Len(pushed) > BlinkCapacity THEN Tail(pushed) ELSE pushed

\* Variant: the current eye aspect ratio alone is compared with the threshold.
detectBlink_unsmoothed(landmarks, history) ==
  IF landmarks = NoFace THEN FALSE
  ELSE landmarks.ear < BlinkThreshold

\* detectBlink's return value, computed on the history after the push.
detectBlink(landmarks, history) ==
  IF landmarks = NoFace THEN FALSE
  ELSE LET h == PushBlink(history, landmarks.ear)
       IN SumSeq(h) < BlinkThreshold * Len(h)

\* Variant: only a ratio above the threshold counts as a turn.
detectHeadTurn_oneSided(landmarks) ==
  IF landmarks = NoFace THEN FALSE
  ELSE LET l == landmarks.leftDistance
           r == landmarks.rightDistance
       IN IF r = 0 THEN l > 0
          ELSE 10 * l > 13 * r

\* ratio = leftDistance / rightDistance; ratio > 1.3 || ratio < 1 / 1.3.
\* x / 0 is Infinity for x > 0 and NaN for x = 0; NaN compares false.
detectHeadTurn(landmarks) ==
  IF landmarks = NoFace THEN FALSE
  ELSE LET l == landmarks.leftDistance
           r == landmarks.rightDistance
       IN IF r = 0 THEN l > 0
          ELSE 10 * l > 13 * r \/ 13 * l < 10 * r

\* Variant: a ratio of exactly 2.5 counts as a smile.
detectSmile_inclusive(landmarks) ==
  IF landmarks = NoFace THEN FALSE
  ELSE LET w == landmarks.mouthWidth
           h == landmarks.mouthHeight
       IN IF h = 0 THEN w > 0
          ELSE 2 * w >= 5 * h

\* smileRatio = mouthWidth / mouthHeight; smileRatio > 2.5.
detectSmile(landmarks) ==
  IF landmarks = NoFace THEN FALSE
  ELSE LET w == landmarks.mouthWidth
           h == landmarks.mouthHeight
       IN IF h = 0 THEN w > 0
          ELSE 2 * w > 5 * h

\* ------------------------------------------------------ action sequencer
Stages == <<"face_detection", "blink", "head_turn", "smile", "complete">>
StageIndex(a) == CHOOSE i \in 1..Len(Stages) : Stages[i] = a

Checks == [blinkDetected |-> blinkDetected, headTurnDetected |-> headTurnDetected,
           smileDetected |-> smileDetected, currentAction |-> currentAction,
           actionProgress |-> actionProgress, actionStartTime |-> actionStartTime,
           blinkHistory |-> blinkHistory, headPositionHistory |-> headPositionHistory]

\* Variant: no minimum time per action.
DwellPending_off(currentTime, startTime) == FALSE

\* The guard of line 214.
DwellPending(currentTime, startTime) == currentTime - startTime < DwellMs

\* The detector the switch consults for the current action (lines 230, 240, 250).
GestureDetected(action, landmarks, history) ==
  CASE action = "blink" -> detectBlink(landmarks, history)
    [] action = "head_turn" -> detectHeadTurn(landmarks)
    [] action = "smile" -> detectSmile(landmarks)
    [] OTHER -> FALSE

\* Variant: every case performs its setters whatever the detector said.
ShouldAdvance_unconditional(action, detected) ==
  action \in {"face_detection", "blink", "head_turn", "smile"}

\* Variant: the default case of the switch performs setters as well.
ShouldAdvance_always(action, detected) ==
  CASE action = "face_detection" -> TRUE
    [] action \in {"blink", "head_turn", "smile"} -> detected
    [] OTHER -> TRUE

\* The condition under which a case of the switch performs its setters.
ShouldAdvance(action, detected) ==
  CASE action = "face_detection" -> TRUE
    [] action \in {"blink", "head_turn", "smile"} -> detected
    [] OTHER -> FALSE

\* Variant: the blink case names the wrong next action.
NextAction_skipping(action) ==
  CASE action = "face_detection" -> "blink"
    [] action = "blink" -> "smile"
    [] action = "head_turn" -> "smile"
    [] action = "smile" -> "complete"
    [] OTHER -> action

\* The setCurrentAction argument of each case.
NextAction(action) ==
  CASE action = "face_detection" -> "blink"
    [] action = "blink" -> "head_turn"
    [] action = "head_turn" -> "smile"
    [] action = "smile" -> "complete"
    [] OTHER -> action

\* Variant: the head_turn case repeats the progress of the blink case.
NextProgress_repeated(action) ==
  CASE action = "face_detection" -> 25
    [] action = "blink" -> 50
    [] action = "head_turn" -> 50
    [] action = "smile" -> 100
    [] OTHER -> 0

\* The setActionProgress argument of each case.
NextProgress(action) ==
  CASE action = "face_detection" -> 25
    [] action = "blink" -> 50
    [] action = "head_turn" -> 75
    [] action = "smile" -> 100
    [] OTHER -> 0

\* checkLivenessAction(landmarks) called at Date.now() = currentTime on the
\* hook state c; the result is the hook state of the next render.
checkLivenessAction(c, landmarks, currentTime) ==
  IF landmarks = NoFace THEN c
  ELSE IF c.actionStartTime = NoTime
    THEN [c EXCEPT !.actionStartTime = currentTime]
  ELSE IF DwellPending(currentTime, c.actionStartTime) THEN c
  ELSE
    LET a == c.currentAction
        hist == IF a = "blink" THEN PushBlink(c.blinkHistory, landmarks.ear)
                ELSE c.blinkHistory
        detected == GestureDetected(a, landmarks, c.blinkHistory)
        pushed == [c EXCEPT !.blinkHistory = hist]
    IN IF ShouldAdvance(a, detected)
         THEN [pushed EXCEPT
                 !.currentAction = NextAction(a),
                 !.actionProgress = NextProgress(a),
                 !.actionStartTime = IF a = "smile" THEN NoTime ELSE currentTime,
                 !.blinkDetected = IF a = "blink" THEN TRUE ELSE @,
                 !.headTurnDetected = IF a = "head_turn" THEN TRUE ELSE @,
                 !.smileDetected = IF a = "smile" THEN TRUE ELSE @]
         ELSE pushed

\* Whether the call reaches the switch, and what the stage's detector said.
DetectorOutcome(c, landmarks, currentTime) ==
  IF landmarks = NoFace \/ c.actionStartTime = NoTime
     \/ DwellPending(currentTime, c.actionStartTime)
     \/ c.currentAction \notin {"blink", "head_turn", "smile"}
    THEN "not_run"
  ELSE IF GestureDetected(c.currentAction, landmarks, c.blinkHistory)
    THEN "true" ELSE "false"

\* Variant: the reset leaves the smile flag as it is.
resetChecks_keepsSmile(c) ==
  [c EXCEPT !.blinkDetected = FALSE, !.headTurnDetected = FALSE,
            !.currentAction = "face_detection",
            !.actionProgress = 0, !.actionStartTime = NoTime,
            !.blinkHistory = <<>>, !.headPositionHistory = <<>>]

\* Variant: the blink history survives the reset.
resetChecks_keepsHistory(c) ==
  [c EXCEPT !.blinkDetected = FALSE, !.headTurnDetected = FALSE,
            !.smileDetected = FALSE, !.currentAction = "face_detection",
            !.actionProgress = 0, !.actionStartTime = NoTime,
            !.headPositionHistory = <<>>]

\* resetChecks (lines 265-274).
resetChecks(c) ==
  [c EXCEPT !.blinkDetected = FALSE, !.headTurnDetected = FALSE,
            !.smileDetected = FALSE, !.currentAction = "face_detection",
            !.actionProgress = 0, !.actionStartTime = NoTime,
            !.blinkHistory = <<>>, !.headPositionHistory = <<>>]

SetChecks(c) ==
  /\ blinkDetected' = c.blinkDetected
  /\ headTurnDetected' = c.headTurnDetected
  /\ smileDetected' = c.smileDetected
  /\ currentAction' = c.currentAction
  /\ actionProgress' = c.actionProgress
  /\ actionStartTime' = c.actionStartTime
  /\ blinkHistory' = c.blinkHistory
  /\ headPositionHistory' = c.headPositionHistory

\* ------------------------------------------------------------ face crops
(* The argument of detectLiveness: absent, or a tensor of some rank whose  *)
(* values are all finite, or hold a NaN, or hold an infinity.              *)
Absent == [present |-> FALSE]
Tensor(rank, values) == [present |-> TRUE, rank |-> rank, values |-> values]
\* What extractFaceFromVideo returns: tf.browser.fromPixels of a canvas.
Crop == Tensor(3, "finite")
\* Every argument detectLiveness is considered with.
Tensors == {Absent} \cup {Tensor(rank, values) :
                            rank \in {2, 3, 4}, values \in {"finite", "NaN", "Infinity"}}

\* Variant: the scan of the values looks for NaN only.
hasInvalidValues_nanOnly(tensor) == tensor.values = "NaN"

\* getTensorStats(...).hasInvalidValues: some value is NaN or not finite.
hasInvalidValues(tensor) == tensor.values # "finite"

\* Lines 497-505: the conditions under which detectLiveness throws before
\* it touches the face history.
RejectedInput(tensor) ==
  ~tensor.present \/ tensor.rank # 3 \/ hasInvalidValues(tensor)

\* ---------------------------------------------------- passive forensics
(* What the body of an analysis comes to: its measurement passes the     *)
(* threshold, or fails it, or one of its tensor operations throws.        *)
Measured == {"pass", "fail"}
AnalysisOutcomes == Measured \cup {"throws"}

\* Variant: only a measurement that fails the threshold gives 0.
analyzeTexture_optimistic(outcome) == IF outcome = "fail" THEN 0 ELSE 1

\* analyzeTexture on a present tensor: 1 when the variance passes the
\* threshold, 0 when it does not, 0 from the catch block.
analyzeTexture(outcome) == IF outcome = "pass" THEN 1 ELSE 0

\* analyzeFrequencyDomain on a present tensor, likewise.
analyzeFrequencyDomain(outcome) == IF outcome = "pass" THEN 1 ELSE 0

\* Lines 414-415: the frames the loop of analyzeMotion reads, previousFaces[i]
\* for i = 0 .. min(length, 3) - 1.
MotionFrames(previousFaces) ==
  SubSeq(previousFaces, 1,
         IF Len(previousFaces) < MotionCompared THEN Len(previousFaces)
         ELSE MotionCompared)

\* analyzeMotion: 0 with fewer than three prior crops; otherwise 1 when the
\* pixel comparison passes the threshold, 0 when it fails or throws.
analyzeMotion(previousFaces, outcome) ==
  IF Len(previousFaces) < MotionMinPrior THEN 0
  ELSE IF outcome = "pass" THEN 1 ELSE 0

\* Variant: no tag for the motion sub-score.
SpoofReasons_noMotionTag(textureScore, motionScore, frequencyScore) ==
  (IF 2 * textureScore < 1 THEN <<"Low texture detail">> ELSE <<>>)
  \o (IF 2 * frequencyScore < 1 THEN <<"Digital artifacts detected">> ELSE <<>>)

\* The reasons array built by lines 477-480; each sub-score is 0 or 1.
SpoofReasons(textureScore, motionScore, frequencyScore) ==
  (IF 2 * textureScore < 1 THEN <<"Low texture detail">> ELSE <<>>)
  \o (IF 2 * motionScore < 1 THEN <<"Insufficient motion">> ELSE <<>>)
  \o (IF 2 * frequencyScore < 1 THEN <<"Digital artifacts detected">> ELSE <<>>)

\* Variant: the motion sub-score is left out of the aggregate.
detectSpoofing_noMotion(textureScore, motionScore, frequencyScore) ==
  LET totalScore == ((textureScore + frequencyScore) * Scale) \div 2
  IN [isSpoof |-> 2 * totalScore < Scale,
      confidence |-> totalScore,
      reasons |-> SpoofReasons(textureScore, motionScore, frequencyScore)]

\* detectSpoofing on a present face tensor, given the three sub-scores.
detectSpoofing(textureScore, motionScore, frequencyScore) ==
  LET totalScore == ((textureScore + motionScore + frequencyScore) * Scale) \div 3
  IN [isSpoof |-> 2 * totalScore < Scale,
      confidence |-> totalScore,
      reasons |-> SpoofReasons(textureScore, motionScore, frequencyScore)]

\* Variant: without a face tensor nothing is held against the subject.
NoFaceData_failOpen == [isSpoof |-> FALSE, confidence |-> 0, reasons |-> <<"No face data">>]

\* Line 468: the result for an absent face tensor.
NoFaceData == [isSpoof |-> TRUE, confidence |-> 0, reasons |-> <<"No face data">>]

\* One call detectSpoofing(faceTensor, previousFaces): what the analyses came
\* to, their scores and the result returned.
detectSpoofingCall(faceTensor, previousFaces, texture, measuredMotion, frequency) ==
  IF ~faceTensor.present
    THEN [tensor |-> faceTensor, ran |-> FALSE, result |-> NoFaceData]
    ELSE
      LET textureScore == analyzeTexture(texture)
          motionScore == analyzeMotion(previousFaces, measuredMotion)
          frequencyScore == analyzeFrequencyDomain(frequency)
      IN [tensor |-> faceTensor, ran |-> TRUE,
          textureOutcome |-> texture,
          motionOutcome |-> IF Len(previousFaces) < MotionMinPrior
                            THEN "skipped" ELSE measuredMotion,
          frequencyOutcome |-> frequency,
          previousFaces |-> previousFaces,
          compared |-> IF Len(previousFaces) < MotionMinPrior
                       THEN <<>> ELSE MotionFrames(previousFaces),
          textureScore |-> textureScore,
          motionScore |-> motionScore,
          frequencyScore |-> frequencyScore,
          result |-> detectSpoofing(textureScore, motionScore, frequencyScore)]

\* ----------------------------------------------------------------- fusion
\* Outputs of the classifier.  predictionData holds whatever numbers the
\* model behind modelRef.current produced: probabilities, or one of the
\* values that are no finite number.
Probabilities == {0, Scale \div 10, Scale \div 2, (85 * Scale) \div 100, Scale}
NonFinite == {NaN, Infinity, 0 - Infinity}
Predictions == [kind : {"prediction"}, spoof : Probabilities \cup NonFinite,
                live : Probabilities \cup NonFinite]
Prediction(spoofProbability, liveProbability) ==
  [kind |-> "prediction", spoof |-> spoofProbability, live |-> liveProbability]
\* What the Promise.race of lines 532-537 settles with.
Failures == {[kind |-> "timeout"], [kind |-> "error"]}
AllOutcomes == Predictions \cup Failures
\* The outcomes explored together with the sequencer: a live and a spoof
\* prediction and the two failures.
Outcomes == {Prediction(Scale \div 10, (85 * Scale) \div 100),
             Prediction((85 * Scale) \div 100, Scale \div 10)} \cup Failures

isNaN(x) == x = NaN
Max(a, b) == IF a > b THEN a ELSE b

\* Line 545: the prediction is rejected.
InvalidPrediction(liveProbability, spoofProbability) ==
  isNaN(liveProbability) \/ isNaN(spoofProbability)

\* Variant: the short-circuit reports the passive flag as the verdict.
SpoofVerdict_flag(passive) ==
  [isLive |-> passive.isSpoof,
   confidence |-> Scale - passive.confidence,
   spoofReasons |-> passive.reasons]

\* Lines 517-526: the object returned when passiveResult.isSpoof.
SpoofVerdict(passive) ==
  [isLive |-> FALSE,
   confidence |-> Scale - passive.confidence,
   spoofReasons |-> passive.reasons]

\* Variant: the live probability is taken as the active confidence.
ActiveConfidence_live(liveProbability, spoofProbability) == liveProbability

\* Line 550.
ActiveConfidence(liveProbability, spoofProbability) ==
  Max(liveProbability, spoofProbability)

CombinedConfidence_smoothed(activeConfidence, passiveConfidence) ==
  (activeConfidence + passiveConfidence + confidence) \div 3

\* Line 551.
CombinedConfidence(activeConfidence, passiveConfidence) ==
  (activeConfidence + passiveConfidence) \div 2

\* Line 553.
IsLiveResult(passive, liveProbability, spoofProbability) ==
  liveProbability > spoofProbability /\ ~passive.isSpoof

\* Lines 549-571: the object returned after inference.
CombinedVerdict(passive, liveProbability, spoofProbability) ==
  [isLive |-> IsLiveResult(passive, liveProbability, spoofProbability),
   confidence |-> CombinedConfidence(ActiveConfidence(liveProbability, spoofProbability),
                                     passive.confidence),
   passiveScore |-> passive.confidence,
   spoofReasons |-> IF passive.isSpoof THEN passive.reasons ELSE <<>>]

\* Lines 150-154 of FaceLivenessDetector.jsx: the object given to setDetectionResult.
PublishedResult(result, timestamp) ==
  [isLive |-> result.isLive, confidence |-> result.confidence, timestamp |-> timestamp]

NoRun == [path |-> "none"]

\* ----------------------------------------------------------------- steps
Init ==
  /\ now = Tick
  /\ faceDetected = FALSE
  /\ faceLandmarks = NoFace
  /\ blinkDetected = FALSE
  /\ headTurnDetected = FALSE
  /\ smileDetected = FALSE
  /\ currentAction = "face_detection"
  /\ actionProgress = 0
  /\ actionStartTime = NoTime
  /\ blinkHistory = <<>>
  /\ headPositionHistory = <<>>
  /\ isModelLoaded = FALSE
  /\ modelInit = "running"
  /\ error = "none"
  /\ isLive = "null"
  /\ confidence = 0
  /\ faceHistory = <<>>
  /\ detectionResult = Null
  /\ isProcessing = FALSE
  /\ pc = "idle"
  /\ passiveResult = Null
  /\ inferenceDeadline = NoTime
  /\ liveTensors = 0
  /\ attempts = 0
  /\ launched = 0
  /\ clicks = 0
  /\ lastRun = NoRun
  /\ lastForensics = NoRun
  /\ verdictLog = {}
  /\ sessionStart = 0
  /\ SurroundingInit
  /\ released = <<>>
  /\ lastOp = "init"
  /\ lastFrame = NoFace
  /\ lastDetector = "not_run"
  /\ stageEnteredAt = Tick
  /\ resets = 0

\* The clock advances.
Advance ==
  /\ now < MaxTicks * Tick
  /\ now' = now + Tick
  /\ UNCHANGED <<surroundingVars, faceDetected, faceLandmarks, checkVars, modelVars, attemptVars, clicks,
                 lastOp, lastFrame, lastDetector, stageEnteredAt, resets>>

\* initializeModel runs to its end: the warm-up succeeded, or an exception was caught.
InitializeModel(ok) ==
  /\ modelInit = "running"
  /\ modelInit' = "done"
  /\ isModelLoaded' = ok
  /\ error' = IF ok THEN "none" ELSE "Failed to initialize liveness detection model"
  /\ UNCHANGED <<surroundingVars, now, lastOp, faceDetected, faceLandmarks, checkVars, isLive, confidence,
                 faceHistory, detectionResult, isProcessing, pc, passiveResult,
                 inferenceDeadline, liveTensors, attempts,
                 launched, lastRun, verdictLog, released, sessionStart, lastForensics,
                 clicks, lastFrame, lastDetector,
                 stageEnteredAt, resets>>

\* FaceLivenessDetector.jsx 142: the face tensor extracted for the k-th
\* attempt that got one.
SourceTensor(k) == [id |-> k, clone |-> FALSE]

\* FaceLivenessDetector.jsx 147: faceTensor.dispose() once detectLiveness has
\* returned; the tensor is the one extracted for this attempt.
disposeFaceTensor(disposed) ==
  Append(disposed,
         SourceTensor(1 + Cardinality({i \in DOMAIN disposed : ~disposed[i].clone})))

\* Variant: the guard does not look at isProcessing.
processLivenessDetection_unguarded(landmarks) ==
  IF landmarks = NoFace
    THEN UNCHANGED <<isProcessing, pc, launched, error, lastRun, released>>
    ELSE \E extracted \in BOOLEAN :
      IF ~extracted
        THEN /\ launched' = launched + 1
             /\ UNCHANGED <<isProcessing, pc, error, lastRun, released>>
      ELSE IF ~isModelLoaded
        THEN /\ error' = "Model not loaded"
             /\ launched' = launched + 1
             /\ lastRun' = [path |-> "not_loaded"]
             /\ released' = disposeFaceTensor(released)
             /\ UNCHANGED <<isProcessing, pc>>
        ELSE /\ isProcessing' = TRUE
             /\ pc' = "passive"
             /\ launched' = launched + 1
             /\ UNCHANGED <<error, lastRun, released>>

\* Variant: detectLiveness does not look at isModelLoaded.
processLivenessDetection_noModelCheck(landmarks) ==
  IF landmarks = NoFace \/ isProcessing
    THEN UNCHANGED <<isProcessing, pc, launched, error, lastRun, released>>
    ELSE \E extracted \in BOOLEAN :
      IF ~extracted
        THEN /\ launched' = launched + 1
             /\ UNCHANGED <<isProcessing, pc, error, lastRun, released>>
        ELSE /\ isProcessing' = TRUE
             /\ pc' = "passive"
             /\ launched' = launched + 1
             /\ UNCHANGED <<error, lastRun, released>>

\* processLivenessDetection up to its first suspension, called in a render
\* whose faceLandmarks is landmarks.  extractFaceFromVideo returns a tensor
\* or null; detectLiveness returns at once when the model is not loaded.
processLivenessDetection(landmarks) ==
  IF landmarks = NoFace \/ isProcessing
    THEN UNCHANGED <<isProcessing, pc, launched, error, lastRun, released>>
    ELSE \E extracted \in BOOLEAN :
      IF ~extracted
        THEN /\ launched' = launched + 1
             /\ UNCHANGED <<isProcessing, pc, error, lastRun, released>>
      ELSE IF ~isModelLoaded
        THEN /\ error' = "Model not loaded"
             /\ launched' = launched + 1
             /\ lastRun' = [path |-> "not_loaded"]
             /\ released' = disposeFaceTensor(released)
             /\ UNCHANGED <<isProcessing, pc>>
        ELSE /\ isProcessing' = TRUE
             /\ pc' = "passive"
             /\ launched' = launched + 1
             /\ UNCHANGED <<error, lastRun, released>>

\* Line 508: the tensor made by faceImageTensor.clone() for the k-th push.
CloneTensor(k) == [id |-> k, clone |-> TRUE]

\* Variant: the oldest crop is dropped without being disposed.
EvictOldest_noDispose(disposed, pushed) == disposed

\* Lines 509-512: beyond five entries the oldest is shifted out and disposed.
EvictOldest(disposed, pushed) ==
  IF Len(pushed) > FaceHistoryCapacity
    THEN Append(disposed, CloneTensor(Head(pushed)))
    ELSE disposed

\* Variant: isProcessing is cleared only when there is a result.
FinishAttempt_noFinally(result) ==
  /\ detectionResult' = IF result # Null THEN PublishedResult(result, now)
                        ELSE detectionResult
  /\ isProcessing' = (result = Null)
  /\ pc' = "idle"
  /\ passiveResult' = Null
  /\ inferenceDeadline' = NoTime

\* Variant: an attempt that ended without a result is started again.
FinishAttempt_retry(result) ==
  /\ detectionResult' = IF result # Null THEN PublishedResult(result, now)
                        ELSE detectionResult
  /\ isProcessing' = (result = Null)
  /\ pc' = IF result = Null THEN "passive" ELSE "idle"
  /\ passiveResult' = Null
  /\ inferenceDeadline' = NoTime

\* The end of processLivenessDetection once detectLiveness returned result.
FinishAttempt(result) ==
  /\ detectionResult' = IF result # Null THEN PublishedResult(result, now)
                        ELSE detectionResult
  /\ isProcessing' = FALSE
  /\ pc' = "idle"
  /\ passiveResult' = Null
  /\ inferenceDeadline' = NoTime

\* One processed frame: onResults, then the landmark effect of the component
\* (FaceLivenessDetector.jsx 176-184), which calls checkLivenessAction only
\* when a face was detected, then the auto-complete effect (187-191), which
\* runs when isComplete changed.
Frame(results) ==
  LET r == onResults(results)
      seen == r.faceDetected /\ r.faceLandmarks # NoFace
      c == IF seen THEN checkLivenessAction(Checks, r.faceLandmarks, now) ELSE Checks
      completed == c.currentAction = "complete" /\ currentAction # "complete"
  IN /\ frameLoop.scheduled /\ ~frameLoop.closed
     /\ faceDetected' = r.faceDetected
     /\ faceLandmarks' = r.faceLandmarks
     /\ SetChecks(c)
     /\ IF completed /\ detectionResult = Null
          THEN processLivenessDetection(r.faceLandmarks)
          ELSE UNCHANGED <<isProcessing, pc, launched, error, lastRun, released>>
     /\ lastOp' = "frame"
     /\ lastFrame' = results
     /\ lastDetector' = IF seen THEN DetectorOutcome(Checks, r.faceLandmarks, now)
                        ELSE "not_run"
     /\ stageEnteredAt' = IF c.currentAction # currentAction THEN now ELSE stageEnteredAt
     /\ UNCHANGED <<surroundingVars, now, modelVars, isLive, confidence, faceHistory, detectionResult,
                    passiveResult, inferenceDeadline, liveTensors, attempts, lastForensics,
                    verdictLog, sessionStart, clicks, resets>>

\* The "Complete verification" button, rendered while isComplete and no
\* result, disabled while isProcessing.
ClickComplete ==
  /\ currentAction = "complete"
  /\ detectionResult = Null
  /\ ~isProcessing
  /\ clicks < MaxClicks
  /\ clicks' = clicks + 1
  /\ processLivenessDetection(faceLandmarks)
  /\ UNCHANGED <<surroundingVars, now, lastOp, faceDetected, faceLandmarks, checkVars, modelVars, isLive,
                 confidence, faceHistory, detectionResult, passiveResult, inferenceDeadline,
                 liveTensors, attempts, lastForensics, verdictLog, sessionStart,
                 lastFrame, lastDetector, stageEnteredAt, resets>>

\* detectLiveness from the validation of the tensor to the branch on the
\* passive result.  faceImageTensor is the argument; texture, measuredMotion
\* and frequency are what the bodies of the three analyses come to on it.
AttemptPassive(faceImageTensor, texture, measuredMotion, frequency) ==
  /\ pc = "passive"
  /\ IF RejectedInput(faceImageTensor)
       THEN /\ error' = "Failed to perform liveness detection"
            /\ lastRun' = [path |-> "failed", cause |-> "invalid input"]
            /\ lastForensics' = [tensor |-> faceImageTensor, ran |-> FALSE]
            /\ released' = disposeFaceTensor(released)
            /\ FinishAttempt(Null)
            /\ UNCHANGED <<isLive, confidence, faceHistory, attempts, liveTensors,
                           verdictLog>>
       ELSE
         LET pushed == Append(faceHistory, attempts + 1)
             history == IF Len(pushed) > FaceHistoryCapacity THEN Tail(pushed) ELSE pushed
             prior == SubSeq(history, 1, Len(history) - 1)
             forensics == detectSpoofingCall(faceImageTensor, prior, texture,
                                             measuredMotion, frequency)
             passive == forensics.result
         IN /\ faceHistory' = history
            /\ attempts' = attempts + 1
            /\ lastForensics' = forensics
            /\ IF passive.isSpoof
                 THEN /\ isLive' = "false"
                      /\ confidence' = Scale - passive.confidence
                      /\ lastRun' = [path |-> "spoof", passive |-> passive,
                                     result |-> SpoofVerdict(passive)]
                      /\ verdictLog' = verdictLog \cup
                           {[attempt |-> attempts + 1, run |-> lastRun']}
                      /\ released' = disposeFaceTensor(EvictOldest(released, pushed))
                      /\ FinishAttempt(SpoofVerdict(passive))
                      /\ UNCHANGED <<error, liveTensors>>
                 ELSE /\ pc' = "inference"
                      /\ passiveResult' = passive
                      /\ liveTensors' = liveTensors + 1
                      /\ inferenceDeadline' = now + InferenceTimeoutMs
                      /\ released' = EvictOldest(released, pushed)
                      /\ UNCHANGED <<isLive, confidence, error, lastRun, detectionResult,
                                     isProcessing, verdictLog>>
  /\ UNCHANGED <<surroundingVars, now, faceDetected, faceLandmarks, checkVars, modelVars, launched, clicks,
                 sessionStart, lastOp, lastFrame, lastDetector, stageEnteredAt, resets>>

\* The clock reaches the time at which the timer of the Promise.race fires.
AwaitTimeout ==
  /\ pc = "inference"
  /\ now < inferenceDeadline
  /\ now' = inferenceDeadline
  /\ UNCHANGED <<surroundingVars, faceDetected, faceLandmarks, checkVars, modelVars, attemptVars, clicks,
                 lastOp, lastFrame, lastDetector, stageEnteredAt, resets>>

\* disposeTensors(tensors): the live tensors that remain.
disposeTensors(live, tensors) == live - Cardinality(tensors)

\* detectLiveness from the Promise.race to its return.  outcome is what the
\* race settles with: the prediction or the error of a rejected predict
\* while the timer is pending, the timeout once it has fired.  The catch
\* block disposes nothing.
AttemptInference(outcome) ==
  /\ pc = "inference"
  /\ (outcome.kind = "timeout") <=> (now >= inferenceDeadline)
  /\ IF outcome.kind # "prediction"
       THEN /\ error' = "Failed to perform liveness detection"
            /\ lastRun' = [path |-> "failed", cause |-> outcome.kind]
            /\ FinishAttempt(Null)
            /\ UNCHANGED <<isLive, confidence, liveTensors, verdictLog>>
     ELSE IF InvalidPrediction(outcome.live, outcome.spoof)
       THEN /\ error' = "Failed to perform liveness detection"
            /\ lastRun' = [path |-> "failed", cause |-> "invalid output"]
            /\ FinishAttempt(Null)
            /\ liveTensors' = liveTensors + 1
            /\ UNCHANGED <<isLive, confidence, verdictLog>>
       ELSE
         LET verdict == CombinedVerdict(passiveResult, outcome.live, outcome.spoof)
         IN /\ isLive' = IF verdict.isLive THEN "true" ELSE "false"
            /\ confidence' = verdict.confidence
            /\ lastRun' = [path |-> "combined", passive |-> passiveResult,
                           liveProbability |-> outcome.live,
                           spoofProbability |-> outcome.spoof, result |-> verdict]
            /\ verdictLog' = verdictLog \cup {[attempt |-> attempts, run |-> lastRun']}
            /\ liveTensors' = disposeTensors(liveTensors + 1,
                                             {"processedTensor", "predictions"})
            /\ FinishAttempt(verdict)
            /\ UNCHANGED error
  /\ released' = disposeFaceTensor(released)
  /\ UNCHANGED <<surroundingVars, now, faceDetected, faceLandmarks, checkVars, modelVars, faceHistory,
                 attempts, launched, lastForensics, clicks, sessionStart, lastOp, lastFrame,
                 lastDetector, stageEnteredAt, resets>>

\* handleStartVerification; the button is disabled until the model is loaded.
Reset ==
  /\ isModelLoaded
  /\ resets < MaxResets
  /\ detectionResult' = Null
  /\ SetChecks(resetChecks(Checks))
  /\ lastOp' = "reset"
  /\ lastDetector' = "not_run"
  /\ stageEnteredAt' = now
  /\ resets' = resets + 1
  /\ launched' = 0
  /\ sessionStart' = attempts
  /\ UNCHANGED <<surroundingVars, now, faceDetected, faceLandmarks, modelVars, error, isLive, confidence,
                 faceHistory, isProcessing, pc, passiveResult, inferenceDeadline,
                 liveTensors, attempts, lastRun, lastForensics, verdictLog, released,
                 clicks, lastFrame>>

Next ==
  \/ Advance
  \/ \E ok \in BOOLEAN : InitializeModel(ok)
  \/ \E results \in Results : Frame(results)
  \/ ClickComplete
  \/ \E texture \in Measured, measuredMotion \in Measured, frequency \in Measured :
       AttemptPassive(Crop, texture, measuredMotion, frequency)
  \/ \E outcome \in Outcomes : AttemptInference(outcome)
  \/ Reset

Spec == Init /\ [][Next]_vars

\* ------------------------------------------------------ the fusion alone
(* An attempt at the point where detectLiveness starts: the sequencer is   *)
(* complete, processLivenessDetection has extracted the crop and waits for *)
(* detectLiveness.  The face-crop history is empty (first attempt) or      *)
(* holds the crops of three earlier attempts whose predict call failed     *)
(* and left its input tensor behind.                                       *)
FusionInit ==
  /\ now = Tick + 4 * DwellMs
  /\ faceDetected = TRUE
  /\ faceLandmarks = Smiling
  /\ blinkDetected = TRUE
  /\ headTurnDetected = TRUE
  /\ smileDetected = TRUE
  /\ currentAction = "complete"
  /\ actionProgress = 100
  /\ actionStartTime = NoTime
  /\ blinkHistory = <<Blinking.ear>>
  /\ headPositionHistory = <<>>
  /\ isModelLoaded = TRUE
  /\ modelInit = "done"
  /\ faceHistory \in {<<>>, <<1, 2, 3>>, <<1, 2, 3, 4>>, <<1, 2, 3, 4, 5>>}
  /\ error = IF faceHistory = <<>> THEN "none" ELSE "Failed to perform liveness detection"
  /\ isLive = "null"
  /\ confidence = 0
  /\ detectionResult = Null
  /\ isProcessing = TRUE
  /\ pc = "passive"
  /\ passiveResult = Null
  /\ inferenceDeadline = NoTime
  /\ liveTensors = Len(faceHistory)
  /\ attempts = Len(faceHistory)
  /\ launched = Len(faceHistory) + 1
  /\ clicks = Len(faceHistory)
  /\ verdictLog = {}
  /\ sessionStart = 0
  /\ SurroundingInit
  /\ released = [k \in 1..Len(faceHistory) |-> SourceTensor(k)]
  /\ lastRun = IF faceHistory = <<>> THEN NoRun ELSE [path |-> "failed", cause |-> "error"]
  /\ lastForensics = NoRun
  /\ lastOp = "frame"
  /\ lastFrame = Smiling
  /\ lastDetector = "true"
  /\ stageEnteredAt = Tick + 4 * DwellMs
  /\ resets = 0

FusionNext ==
  \/ \E faceImageTensor \in Tensors, texture \in AnalysisOutcomes,
        measuredMotion \in AnalysisOutcomes, frequency \in AnalysisOutcomes :
       AttemptPassive(faceImageTensor, texture, measuredMotion, frequency)
  \/ AwaitTimeout
  \/ \E outcome \in AllOutcomes : AttemptInference(outcome)

FusionSpec == FusionInit /\ [][FusionNext]_vars

\* --------------------------------------------------- detectSpoofing alone
(* detectSpoofing called on its own, with every face tensor (the absent    *)
(* one included, which detectLiveness never passes on) and the face        *)
(* history as it stands.                                                   *)
CallDetectSpoofing(faceTensor, texture, measuredMotion, frequency) ==
  /\ lastForensics' = detectSpoofingCall(faceTensor, faceHistory, texture,
                                         measuredMotion, frequency)
  /\ UNCHANGED <<surroundingVars, now, faceDetected, faceLandmarks, checkVars, modelVars, error, isLive,
                 confidence, faceHistory, detectionResult, isProcessing, pc, passiveResult,
                 inferenceDeadline, liveTensors, attempts, launched, lastRun, verdictLog,
                 released, sessionStart, clicks, lastOp, lastFrame, lastDetector, stageEnteredAt, resets>>

ForensicsNext ==
  \E faceTensor \in Tensors, texture \in AnalysisOutcomes,
     measuredMotion \in AnalysisOutcomes, frequency \in AnalysisOutcomes :
    CallDetectSpoofing(faceTensor, texture, measuredMotion, frequency)

ForensicsSpec == FusionInit /\ [][ForensicsNext]_vars

\* ------------------------------------------- the component once complete
(* The component from the same point on: the attempt in flight runs to its *)
(* end, with the clock reaching the deadline of the inference timer, while *)
(* frames keep arriving and the user clicks the buttons.  (Within the      *)
(* clock bound of Spec the timer never fires: the sequence cannot be       *)
(* complete earlier than four dwell times after the start.)                *)
AttemptNext ==
  \/ \E results \in Results : Frame(results)
  \/ ClickComplete
  \/ Reset
  \/ \E texture \in Measured, measuredMotion \in Measured, frequency \in Measured :
       AttemptPassive(Crop, texture, measuredMotion, frequency)
  \/ AwaitTimeout
  \/ \E outcome \in AllOutcomes : AttemptInference(outcome)

AttemptSpec == FusionInit /\ [][AttemptNext]_vars

\* The awaits of an attempt settle: detectSpoofing runs synchronous analyses,
\* and the Promise.race of line 537 is settled by predict or, 5000 ms after
\* the call, by its timer.
AttemptFairness ==
  /\ WF_vars(\E texture \in Measured, measuredMotion \in Measured, frequency \in Measured :
               AttemptPassive(Crop, texture, measuredMotion, frequency))
  /\ WF_vars(\E outcome \in AllOutcomes : AttemptInference(outcome))

FairAttemptSpec == FusionInit /\ [][AttemptNext]_vars /\ AttemptFairness

\* ------------------------------------------------- after a failed attempt
(* The component right after its first attempt failed: the predict call    *)
(* was rejected (the crop is in the history, the input tensor left         *)
(* behind), or detectLiveness rejected its argument.  The clock runs on    *)
(* in dwell times, long enough for a second pass through the gestures,     *)
(* and the frames show no face or a face performing every gesture.         *)
RetryInit ==
  /\ now = Tick + 4 * DwellMs
  /\ faceDetected = TRUE
  /\ faceLandmarks = Smiling
  /\ blinkDetected = TRUE
  /\ headTurnDetected = TRUE
  /\ smileDetected = TRUE
  /\ currentAction = "complete"
  /\ actionProgress = 100
  /\ actionStartTime = NoTime
  /\ blinkHistory = <<Blinking.ear>>
  /\ headPositionHistory = <<>>
  /\ isModelLoaded = TRUE
  /\ modelInit = "done"
  /\ error = "Failed to perform liveness detection"
  /\ isLive = "null"
  /\ confidence = 0
  /\ detectionResult = Null
  /\ isProcessing = FALSE
  /\ pc = "idle"
  /\ passiveResult = Null
  /\ inferenceDeadline = NoTime
  /\ launched = 1
  /\ clicks = 0
  /\ verdictLog = {}
  /\ sessionStart = 0
  /\ SurroundingInit
  /\ released = <<SourceTensor(1)>>
  /\ \/ /\ lastRun = [path |-> "failed", cause |-> "error"]
        /\ lastForensics = [tensor |-> Crop, ran |-> TRUE, textureOutcome |-> "pass",
                            motionOutcome |-> "skipped", frequencyOutcome |-> "pass",
                            textureScore |-> 1,
                            motionScore |-> 0, frequencyScore |-> 1,
                            result |-> detectSpoofing(1, 0, 1)]
        /\ faceHistory \in {<<1>>, <<1, 2, 3>>}
        /\ attempts = Len(faceHistory)
        /\ liveTensors = Len(faceHistory)
     \/ /\ lastRun = [path |-> "failed", cause |-> "invalid input"]
        /\ lastForensics = [tensor |-> Tensor(3, "NaN"), ran |-> FALSE]
        /\ faceHistory = <<>>
        /\ attempts = 0
        /\ liveTensors = 0
  /\ lastOp = "frame"
  /\ lastFrame = Smiling
  /\ lastDetector = "true"
  /\ stageEnteredAt = now
  /\ resets = 0

\* The clock advances by one dwell time.
AdvanceDwell ==
  /\ now < Tick + MaxDwells * DwellMs
  /\ now' = now + DwellMs
  /\ UNCHANGED <<surroundingVars, faceDetected, faceLandmarks, checkVars, modelVars, attemptVars, clicks,
                 lastOp, lastFrame, lastDetector, stageEnteredAt, resets>>

RetryNext ==
  \/ AdvanceDwell
  \/ \E results \in RetryResults : Frame(results)
  \/ ClickComplete
  \/ Reset
  \/ \E texture \in Measured, measuredMotion \in Measured, frequency \in Measured :
       AttemptPassive(Crop, texture, measuredMotion, frequency)
  \/ \E outcome \in Outcomes : AttemptInference(outcome)

RetrySpec == RetryInit /\ [][RetryNext]_vars

\* ---------------------------------------------------- the gestures alone
(* The sequencer right after the blink was detected: 500 ms after the      *)
(* start the blink stage was entered, 500 ms later a closed-eye frame was  *)
(* taken for a blink.  From here frames carry the landmark sets of         *)
(* GestureResults.                                                         *)
GestureInit ==
  /\ now = Tick + 2 * DwellMs
  /\ faceDetected = TRUE
  /\ faceLandmarks = Blinking
  /\ blinkDetected = TRUE
  /\ headTurnDetected = FALSE
  /\ smileDetected = FALSE
  /\ currentAction = "head_turn"
  /\ actionProgress = 50
  /\ actionStartTime = now
  /\ blinkHistory = <<Blinking.ear>>
  /\ headPositionHistory = <<>>
  /\ isModelLoaded = TRUE
  /\ modelInit = "done"
  /\ error = "none"
  /\ isLive = "null"
  /\ confidence = 0
  /\ faceHistory = <<>>
  /\ detectionResult = Null
  /\ isProcessing = FALSE
  /\ pc = "idle"
  /\ passiveResult = Null
  /\ inferenceDeadline = NoTime
  /\ liveTensors = 0
  /\ attempts = 0
  /\ launched = 0
  /\ clicks = 0
  /\ lastRun = NoRun
  /\ lastForensics = NoRun
  /\ verdictLog = {}
  /\ sessionStart = 0
  /\ SurroundingInit
  /\ released = <<>>
  /\ lastOp = "frame"
  /\ lastFrame = Blinking
  /\ lastDetector = "true"
  /\ stageEnteredAt = now
  /\ resets = 0

\* App.jsx 190-200: the cleanup of the effect of useFaceDetection on unmount.
\* stopDetection has an empty body; close() is called on the instance, and
\* faceMeshRef.current keeps referring to it.
Cleanup ==
  /\ ~frameLoop.closed
  /\ frameLoop' = [frameLoop EXCEPT !.closed = TRUE]
  /\ UNCHANGED <<lastExtraction, dynamicCache, lastFetch, now, faceDetected, faceLandmarks,
                 checkVars, modelVars, attemptVars, clicks, lastOp, lastFrame,
                 lastDetector, stageEnteredAt, resets>>

\* What send() does on an instance that has been closed.
SendOutcomes == {"resolves", "rejects"}

\* App.jsx 171-176: a scheduled processFrame that runs after the cleanup.
\* faceMeshRef.current and videoElement are both still set, so the frame is
\* sent; when the send resolves the next processFrame is scheduled, when it
\* rejects the loop ends.  No result reaches the unmounted component.
processFrameAfterClose(sendOutcome) ==
  /\ frameLoop.closed /\ frameLoop.scheduled
  /\ frameLoop' = [frameLoop EXCEPT !.sentAfterClose = TRUE,
                                    !.scheduled = (sendOutcome = "resolves")]
  /\ UNCHANGED <<lastExtraction, dynamicCache, lastFetch, now, faceDetected, faceLandmarks,
                 checkVars, modelVars, attemptVars, clicks, lastOp, lastFrame,
                 lastDetector, stageEnteredAt, resets>>

\* ------------------------------------------------ extractFaceFromVideo
\* Normalized coordinates in hundredths of the frame; the values outside
\* 0..100 stand for landmarks the extractor places outside the frame.
CoordinateUnit == 100
Coordinates == {0 - 10, 0, 50, 100, 110}
Points == [x : Coordinates, y : Coordinates]
LandmarkSets == {{}} \cup {{p, q} : p \in Points, q \in Points}

MinOf(S) == CHOOSE m \in S : \A v \in S : m <= v
MaxOf(S) == CHOOSE m \in S : \A v \in S : m >= v
Min(a, b) == IF a < b THEN a ELSE b

\* Lines 621-623: 20% of the extent of the landmark bounding box.
Padding(extent) == extent \div 5

\* Variant: the padded box is not clamped to the frame.
PaddedBox_unclamped(landmarks) ==
  LET xs == {p.x : p \in landmarks}
      ys == {p.y : p \in landmarks}
      width == MaxOf(xs) - MinOf(xs)
      height == MaxOf(ys) - MinOf(ys)
  IN [minX |-> MinOf(xs) - Padding(width),
      minY |-> MinOf(ys) - Padding(height),
      maxX |-> MaxOf(xs) + Padding(width),
      maxY |-> MaxOf(ys) + Padding(height)]

\* Lines 611-628: the bounding box of the landmarks, padded and clamped.
PaddedBox(landmarks) ==
  LET xs == {p.x : p \in landmarks}
      ys == {p.y : p \in landmarks}
      width == MaxOf(xs) - MinOf(xs)
      height == MaxOf(ys) - MinOf(ys)
  IN [minX |-> Max(0, MinOf(xs) - Padding(width)),
      minY |-> Max(0, MinOf(ys) - Padding(height)),
      maxX |-> Min(CoordinateUnit, MaxOf(xs) + Padding(width)),
      maxY |-> Min(CoordinateUnit, MaxOf(ys) + Padding(height))]

\* extractFaceFromVideo(videoElement, landmarks): null without a video or
\* without landmarks (line 607); otherwise the box is computed and the canvas
\* steps of lines 639-661 give a tensor, or throw and null is returned.
extractFaceFromVideo(videoElement, landmarks, canvasOk) ==
  IF ~videoElement \/ landmarks = {}
    THEN [called |-> TRUE, videoElement |-> videoElement, landmarks |-> landmarks,
          computed |-> FALSE, tensor |-> Absent]
    ELSE [called |-> TRUE, videoElement |-> videoElement, landmarks |-> landmarks,
          computed |-> TRUE, box |-> PaddedBox(landmarks),
          tensor |-> IF canvasOk THEN Crop ELSE Absent]

ExtractFace(videoElement, landmarks, canvasOk) ==
  /\ lastExtraction' = extractFaceFromVideo(videoElement, landmarks, canvasOk)
  /\ UNCHANGED <<frameLoop, dynamicCache, lastFetch, now, faceDetected, faceLandmarks, checkVars, modelVars,
                 attemptVars, clicks, lastOp, lastFrame, lastDetector, stageEnteredAt,
                 resets>>

CropNext ==
  \E videoElement \in BOOLEAN, landmarks \in LandmarkSets, canvasOk \in BOOLEAN :
    ExtractFace(videoElement, landmarks, canvasOk)

CropSpec == Init /\ [][CropNext]_vars

\* ------------------------------------------------------------ sw.js
\* Variant: every response of the network is stored.
ShouldCache_any(status) == TRUE

\* sw.js 64: only a response with status 200 is put into the cache.
ShouldCache(status) == status = StatusOk

\* sw.js 52-79: the fetch handler for a MediaPipe CDN request.  network is
\* what fetch(request) would come to; it is used only on a cache miss.
FetchEvent(request, network) ==
  LET cached == dynamicCache[request]
      hit == cached # NotCached
      status == IF hit THEN cached
                ELSE IF network.ok THEN network.status
                ELSE StatusUnavailable
      stores == ~hit /\ network.ok /\ ShouldCache(network.status)
  IN /\ dynamicCache' = IF stores THEN [dynamicCache EXCEPT ![request] = network.status]
                        ELSE dynamicCache
     /\ lastFetch' = [handled |-> TRUE, request |-> request, cachedBefore |-> cached,
                      network |-> network, networkUsed |-> ~hit,
                      response |-> [status |-> status,
                                    from |-> IF hit THEN "cache"
                                             ELSE IF network.ok THEN "network"
                                             ELSE "fallback"]]
     /\ UNCHANGED <<frameLoop, lastExtraction, now, faceDetected, faceLandmarks, checkVars,
                    modelVars, attemptVars, clicks, lastOp, lastFrame, lastDetector,
                    stageEnteredAt, resets>>

WorkerNext ==
  \E request \in CdnRequests, network \in NetworkOutcomes : FetchEvent(request, network)

WorkerSpec == Init /\ [][WorkerNext]_vars

LoopNext ==
  \/ Advance
  \/ \E results \in Results : Frame(results)
  \/ Cleanup
  \/ \E sendOutcome \in SendOutcomes : processFrameAfterClose(sendOutcome)

LoopSpec == Init /\ [][LoopNext]_vars

GestureNext ==
  \/ Advance
  \/ \E results \in GestureResults : Frame(results)

GestureSpec == GestureInit /\ [][GestureNext]_vars

\* ---------------------------------------------------------------- claims

\* C1: without a reset, the stage only ever changes to its immediate
\* successor in the order face_detection, blink, head_turn, smile, complete.
C1_ForwardOneStage ==
  [][resets' = resets =>
       \/ currentAction' = currentAction
       \/ StageIndex(currentAction') = StageIndex(currentAction) + 1]_vars

C1_Witness == currentAction = "complete" /\ resets = 0 /\ lastOp = "frame"

\* C2: no stage transition made by checkLivenessAction happens less than
\* 500 ms after the stage it leaves was entered (at the start, by a reset or
\* by the preceding transition).
C2_DwellBeforeTransition ==
  [][resets' = resets /\ currentAction' # currentAction =>
       now' - stageEnteredAt >= 500]_vars

C2_Witness ==
  /\ resets = 1
  /\ lastOp = "frame"
  /\ currentAction = "blink"
  /\ stageEnteredAt = now

\* C3: blink, head_turn and smile are left only by a call in which the
\* stage's detector returned true, and a call in which it returned false
\* changes neither the stage, nor the progress, nor the flags.
C3_AdvanceOnlyOnGesture ==
  [][/\ (resets' = resets /\ currentAction \in {"blink", "head_turn", "smile"}
         /\ currentAction' # currentAction) => lastDetector' = "true"
     /\ (lastOp' = "frame" /\ lastDetector' = "false") =>
          UNCHANGED <<currentAction, actionProgress, blinkDetected,
                      headTurnDetected, smileDetected>>]_vars

C3_Witness ==
  /\ lastOp = "frame"
  /\ lastDetector = "false"
  /\ currentAction = "head_turn"
  /\ blinkDetected

\* C4: a frame without a LandmarkSet leaves the whole sequencer state
\* unchanged (stage, progress, flags, start time, histories); with stage =
\* blink the stage stays blink and the progress 25.
C4_NoFaceNoChange ==
  [][lastOp' = "frame" /\ lastFrame' = NoFace => UNCHANGED checkVars]_vars

C4_Witness ==
  /\ lastOp = "frame"
  /\ lastFrame = NoFace
  /\ currentAction = "blink"
  /\ actionProgress = 25

\* C5: after resetChecks the stage is face_detection, the progress 0, the
\* three flags false and the histories empty, and a second resetChecks
\* changes nothing.
C5_ResetState ==
  lastOp = "reset" =>
    /\ currentAction = "face_detection"
    /\ actionProgress = 0
    /\ ~blinkDetected /\ ~headTurnDetected /\ ~smileDetected
    /\ blinkHistory = <<>>
    /\ headPositionHistory = <<>>
    /\ resetChecks(Checks) = Checks

C5_Witness == lastOp = "reset" /\ attempts > 0

\* C6: between two resets, reaching complete launches exactly one
\* verification attempt: never none, never a second one.  (A run whose crop
\* extraction fails before detectLiveness is called is counted as launched.)
C6_ExactlyOneAttempt ==
  /\ currentAction = "complete" => launched = 1
  /\ currentAction # "complete" => launched = 0

\* C7: a verdict returned for a passive result with isSpoof has isLive false.
C7_SpoofNeverLive ==
  (lastRun.path \in {"spoof", "combined"} /\ lastRun.passive.isSpoof) =>
    /\ ~lastRun.result.isLive
    /\ isLive = "false"
    /\ detectionResult # Null => ~detectionResult.isLive

C7_Witness ==
  /\ lastRun.path = "spoof"
  /\ lastRun.passive.isSpoof
  /\ detectionResult # Null

\* C8: for a passive result that is no spoof, confidence is the mean of
\* max(live, spoof) and the passive confidence, and isLive is live > spoof;
\* spoof 0.10, live 0.85, passive 0.90 give 0.875 and live, and equal
\* probabilities give not live.
C8_CombinedVerdict ==
  /\ lastRun.path = "combined" =>
       LET l == lastRun.liveProbability
           s == lastRun.spoofProbability
       IN /\ ~lastRun.passive.isSpoof
          /\ 2 * lastRun.result.confidence =
               (IF l >= s THEN l ELSE s) + lastRun.passive.confidence
          /\ lastRun.result.isLive = (l > s)
          /\ confidence = lastRun.result.confidence
          /\ isLive = (IF l > s THEN "true" ELSE "false")
  /\ LET example == CombinedVerdict([isSpoof |-> FALSE, confidence |-> (9 * Scale) \div 10,
                                     reasons |-> <<>>],
                                    (85 * Scale) \div 100, Scale \div 10)
     IN example.isLive /\ 1000 * example.confidence = 875 * Scale

C8_Witness ==
  /\ lastRun.path = "combined"
  /\ lastRun.liveProbability = lastRun.spoofProbability
  /\ ~lastRun.result.isLive

\* C9: for a passive spoof the returned result has confidence 1 - aggregate
\* and the passive reasons, and the published result still has the reasons.
C9_ReasonsPublished ==
  (lastRun.path = "spoof" /\ detectionResult # Null) =>
    /\ lastRun.result.confidence = Scale - lastRun.passive.confidence
    /\ lastRun.result.spoofReasons = lastRun.passive.reasons
    /\ detectionResult.confidence = Scale - lastRun.passive.confidence
    /\ "spoofReasons" \in DOMAIN detectionResult
    /\ detectionResult.spoofReasons = lastRun.passive.reasons

\* C10: every verdict detectLiveness returns has its confidence in [0, 1],
\* on the short-circuit path and on the combined path.
C10_ConfidenceInRange ==
  /\ lastRun.path \in {"spoof", "combined"} =>
       /\ 0 <= lastRun.result.confidence
       /\ lastRun.result.confidence <= Scale
  /\ 0 <= confidence /\ confidence <= Scale

\* C11: the confidence detectSpoofing returns is the arithmetic mean of the
\* texture, motion and frequency sub-scores (each 0 or 1), and isSpoof holds
\* exactly when that mean is below 0.5, that is when at most one of the
\* three sub-scores is 1.
C11_MeanOfSubScores ==
  ("ran" \in DOMAIN lastForensics /\ lastForensics.ran) =>
    LET ones == lastForensics.textureScore + lastForensics.motionScore
                + lastForensics.frequencyScore
        result == lastForensics.result
    IN /\ {lastForensics.textureScore, lastForensics.motionScore,
            lastForensics.frequencyScore} \subseteq {0, 1}
       /\ 3 * result.confidence = ones * Scale
       /\ result.isSpoof <=> (2 * result.confidence < Scale)
       /\ result.isSpoof <=> (ones <= 1)

C11_Witness ==
  /\ "ran" \in DOMAIN lastForensics /\ lastForensics.ran
  /\ lastForensics.textureScore = 0
  /\ lastForensics.motionScore = 1
  /\ lastForensics.frequencyScore = 1
  /\ 3 * lastForensics.result.confidence = 2 * Scale
  /\ pc = "inference"

\* C12: the reasons of detectSpoofing hold exactly one tag for each
\* sub-score below 0.5 (texture: 'Low texture detail', motion: 'Insufficient
\* motion', frequency: 'Digital artifacts detected') and no other tag,
\* whatever isSpoof is; texture 0, motion 1, frequency 1 give isSpoof false
\* with the single reason 'Low texture detail'.
C12_ReasonsPerSubScore ==
  /\ ("ran" \in DOMAIN lastForensics /\ lastForensics.ran) =>
       LET reasons == lastForensics.result.reasons
           tags == {reasons[i] : i \in DOMAIN reasons}
       IN /\ ("Low texture detail" \in tags) <=> (2 * lastForensics.textureScore < 1)
          /\ ("Insufficient motion" \in tags) <=> (2 * lastForensics.motionScore < 1)
          /\ ("Digital artifacts detected" \in tags)
               <=> (2 * lastForensics.frequencyScore < 1)
          /\ tags \subseteq {"Low texture detail", "Insufficient motion",
                              "Digital artifacts detected"}
          /\ Len(reasons) = Cardinality(tags)
  /\ LET example == detectSpoofing(0, 1, 1)
     IN ~example.isSpoof /\ example.reasons = <<"Low texture detail">>

C12_Witness ==
  /\ "ran" \in DOMAIN lastForensics /\ lastForensics.ran
  /\ ~lastForensics.result.isSpoof
  /\ lastForensics.result.reasons = <<"Low texture detail">>
  /\ lastRun.path = "combined"

\* C13: the blink history never holds more than 10 values, and every
\* detectBlink call leaves it equal to the most recent values in arrival
\* order: the value pushed is appended and, when that makes 11, the oldest
\* retained value is dropped; a reset empties it.
C13_BlinkHistoryBounded ==
  [][/\ Len(blinkHistory') <= 10
     /\ (blinkHistory' # blinkHistory /\ resets' = resets) =>
          LET arrived == Append(blinkHistory, lastFrame'.ear)
          IN /\ lastOp' = "frame"
             /\ blinkHistory' = IF Len(arrived) = 11 THEN SubSeq(arrived, 2, 11)
                                ELSE arrived
     /\ (currentAction' = "blink" /\ lastOp' = "frame" /\ lastDetector' # "not_run") =>
          /\ blinkHistory' # <<>>
          /\ blinkHistory'[Len(blinkHistory')] = lastFrame'.ear
     /\ resets' # resets => blinkHistory' = <<>>]_vars

C13_Witness ==
  /\ Len(blinkHistory) = 10
  /\ blinkHistory[1] = Blinking.ear
  /\ blinkHistory[10] = Neutral.ear
  /\ currentAction = "blink"

\* C14: detectBlink returns true exactly when the mean of the values the
\* blink history retains after the push (the value just pushed included) is
\* below 0.25; the history 0.30, 0.28, 0.10, 0.08, 0.29 has mean 0.21 and
\* gives true.
C14_BlinkIsMeanBelowThreshold ==
  [][/\ (currentAction = "blink" /\ lastOp' = "frame" /\ resets' = resets
         /\ lastDetector' # "not_run") =>
          /\ blinkHistory' # <<>>
          /\ (lastDetector' = "true")
               <=> (SumSeq(blinkHistory') < 25 * Len(blinkHistory'))
     /\ detectBlink([Neutral EXCEPT !.ear = 29], <<30, 28, 10, 8>>)
     /\ 30 + 28 + 10 + 8 + 29 = 21 * 5]_vars

C14_Witness ==
  /\ lastOp = "frame"
  /\ currentAction = "blink"
  /\ lastDetector = "false"
  /\ Len(blinkHistory) = 5
  /\ blinkHistory[5] = Blinking.ear

\* C15: detectHeadTurn returns true exactly when leftDist / rightDist is
\* above 1.3 or below 1 / 1.3, and swapping the two distances never changes
\* its answer; 50 and 30 give true in either order.
C15_HeadTurnRatio ==
  LET l == lastFrame.leftDistance
      r == lastFrame.rightDistance
      turned == IF r = 0 THEN l > 0 ELSE (10 * l > 13 * r \/ 13 * l < 10 * r)
      swapped == [lastFrame EXCEPT !.leftDistance = r, !.rightDistance = l]
  IN /\ (currentAction = "smile" /\ lastDetector = "true") =>
          turned /\ detectHeadTurn(swapped)
     /\ (currentAction = "head_turn" /\ lastDetector = "false") =>
          ~turned /\ ~detectHeadTurn(swapped)
     /\ detectHeadTurn([Neutral EXCEPT !.leftDistance = 50, !.rightDistance = 30])
     /\ detectHeadTurn([Neutral EXCEPT !.leftDistance = 30, !.rightDistance = 50])

C15_Witness ==
  /\ currentAction = "smile"
  /\ lastDetector = "true"
  /\ lastFrame.leftDistance = 30
  /\ lastFrame.rightDistance = 50
  /\ headTurnDetected

\* C16: detectSmile returns true exactly when mouth width / mouth height is
\* above 2.5; a ratio of exactly 2.5 is no smile, and width 40 with height
\* 10 is one.
C16_SmileRatio ==
  LET w == lastFrame.mouthWidth
      h == lastFrame.mouthHeight
      smiling == IF h = 0 THEN w > 0 ELSE 10 * w > 25 * h
  IN /\ (currentAction = "complete" /\ lastDetector = "true") => smiling
     /\ (currentAction = "smile" /\ lastDetector = "false") => ~smiling
     /\ detectSmile([Neutral EXCEPT !.mouthWidth = 40, !.mouthHeight = 10])
     /\ ~detectSmile([Neutral EXCEPT !.mouthWidth = 25, !.mouthHeight = 10])

C16_Witness ==
  /\ currentAction = "smile"
  /\ lastDetector = "false"
  /\ lastFrame.mouthWidth = 25
  /\ lastFrame.mouthHeight = 10

\* C17: a detectLiveness call whose face tensor is absent, is not of rank 3
\* or holds a NaN or an infinite value ends in failure before any forensics
\* or inference: no result, the error reported, the classifier not invoked,
\* the face-crop history as it was.
C17_InvalidInputRejected ==
  [][lastForensics' # lastForensics =>
       LET tensor == lastForensics'.tensor
           invalid == \/ ~tensor.present
                      \/ tensor.rank # 3
                      \/ tensor.values \in {"NaN", "Infinity"}
       IN /\ invalid <=> ~lastForensics'.ran
          /\ invalid =>
               /\ faceHistory' = faceHistory
               /\ attempts' = attempts
               /\ pc' = "idle"
               /\ passiveResult' = Null
               /\ ~isProcessing'
               /\ detectionResult' = Null
               /\ lastRun'.path = "failed"
               /\ error' = "Failed to perform liveness detection"
               /\ UNCHANGED <<isLive, confidence>>]_vars

C17_Witness ==
  /\ "ran" \in DOMAIN lastForensics /\ ~lastForensics.ran
  /\ lastForensics.tensor = Tensor(3, "Infinity")
  /\ faceHistory = <<1, 2, 3>>
  /\ pc = "idle"
  /\ detectionResult = Null

\* C18: a classifier output whose spoof or live probability is not a finite
\* number (NaN, +Infinity, -Infinity) ends the attempt in failure: no verdict
\* is returned and no result published for it.
C18_NonFiniteOutputRejected ==
  lastRun.path = "combined" =>
    /\ lastRun.liveProbability \notin {NaN, Infinity, 0 - Infinity}
    /\ lastRun.spoofProbability \notin {NaN, Infinity, 0 - Infinity}

C20_TensorsReleased ==
  pc = "idle" => liveTensors = 0

C22_FailureLeavesSessionResettable ==
  [][/\ (pc # "idle" /\ pc' = "idle" /\ lastRun'.path = "failed") =>
          /\ ~isProcessing'
          /\ UNCHANGED <<checkVars, faceDetected, faceLandmarks, modelVars>>
     /\ lastRun'.path = "failed" => isModelLoaded'
     /\ (currentAction # "complete" /\ currentAction' = "complete"
         /\ ~isProcessing /\ detectionResult = Null) =>
          launched' = launched + 1]_vars

C22_Witness ==
  /\ resets = 1
  /\ launched = 1
  /\ error = "Failed to perform liveness detection"
  /\ lastRun.path = "combined"
  /\ detectionResult # Null
  /\ detectionResult.isLive
  /\ currentAction = "complete"

\* C23: at most one verification attempt is in flight: a run of
\* processLivenessDetection gets past its guard, and a detectLiveness call
\* begins, only while no attempt is running, whichever trigger asks for it
\* (auto-complete effect, manual button, a completion reached after a
\* reset); isProcessing is set exactly while an attempt is in flight.
C23_SingleAttemptInFlight ==
  [][/\ launched' = launched + 1 => (pc = "idle" /\ ~isProcessing)
     /\ (pc' = "passive" /\ pc # "passive") => (pc = "idle" /\ ~isProcessing)
     /\ isProcessing' <=> (pc' # "idle")]_vars

C23_Witness ==
  /\ pc = "inference"
  /\ resets = 1
  /\ currentAction = "complete"
  /\ stageEnteredAt = now
  /\ launched = 0
  /\ clicks = 1

\* C24: an analysis (texture, motion, frequency) that throws counts as a
\* sub-score of 0, never of 1, and detectSpoofing still returns its result
\* from the three sub-scores: the attempt goes on to a verdict or to the
\* inference, it is not aborted.
C24_FailedAnalysisScoresZero ==
  ("ran" \in DOMAIN lastForensics /\ lastForensics.ran) =>
    LET f == lastForensics
        tags == {f.result.reasons[i] : i \in DOMAIN f.result.reasons}
    IN /\ f.textureOutcome = "throws" =>
            f.textureScore = 0 /\ "Low texture detail" \in tags
       /\ f.motionOutcome = "throws" =>
            f.motionScore = 0 /\ "Insufficient motion" \in tags
       /\ f.frequencyOutcome = "throws" =>
            f.frequencyScore = 0 /\ "Digital artifacts detected" \in tags
       /\ 3 * f.result.confidence
            = (f.textureScore + f.motionScore + f.frequencyScore) * Scale
       /\ IF f.result.isSpoof
            THEN pc = "idle" /\ lastRun.path = "spoof" /\ detectionResult # Null
            ELSE pc = "inference" \/ lastRun.path \in {"combined", "failed"}

C24_Witness ==
  /\ "ran" \in DOMAIN lastForensics /\ lastForensics.ran
  /\ lastForensics.textureOutcome = "pass"
  /\ lastForensics.motionOutcome = "throws"
  /\ lastForensics.frequencyOutcome = "pass"
  /\ lastRun.path = "combined"
  /\ detectionResult # Null

\* C25: detectSpoofing called without a face crop returns isSpoof true,
\* confidence 0 and the single reason 'No face data', and runs none of the
\* three analyses.
C25_NoFaceDataFailClosed ==
  ("tensor" \in DOMAIN lastForensics /\ ~lastForensics.tensor.present) =>
    /\ lastForensics.result.isSpoof
    /\ lastForensics.result.confidence = 0
    /\ lastForensics.result.reasons = <<"No face data">>
    /\ ~lastForensics.ran
    /\ DOMAIN lastForensics = {"tensor", "ran", "result"}

C25_Witness ==
  /\ "result" \in DOMAIN lastForensics
  /\ lastForensics.tensor = Absent
  /\ faceHistory = <<1, 2, 3>>

\* Two logged runs had the same inputs: the same passive result and, when the
\* classifier ran, the same pair of probabilities.
SameFusionInputs(a, b) ==
  /\ a.run.path = b.run.path
  /\ a.run.passive = b.run.passive
  /\ a.run.path = "combined" =>
        /\ a.run.liveProbability = b.run.liveProbability
        /\ a.run.spoofProbability = b.run.spoofProbability

\* C26: the verdict is a function of the passive result and the classifier
\* probabilities alone: any two runs of the session that were given the same
\* passive result and the same probabilities returned the same isLive and the
\* same confidence, whatever was verified, published or stored before them.
C26_VerdictDeterministic ==
  \A a \in verdictLog : \A b \in verdictLog :
    SameFusionInputs(a, b) =>
      /\ a.run.result.isLive = b.run.result.isLive
      /\ a.run.result.confidence = b.run.result.confidence

C26_Witness ==
  \E a \in verdictLog : \E b \in verdictLog :
    /\ a.attempt < b.attempt
    /\ a.run.path = "combined"
    /\ SameFusionInputs(a, b)
    /\ resets = 1
    /\ confidence = b.run.result.confidence

\* C27: a detectSpoofing call of an attempt scores motion 0 and compares
\* nothing when fewer than 3 prior crops are passed; otherwise the crops it
\* compares the current crop with are the 3 most recent of the prior crops in
\* the history, and never the crop of the attempt itself.
C27_MotionUsesMostRecentPrior ==
  ("ran" \in DOMAIN lastForensics /\ lastForensics.ran /\ faceHistory # <<>>) =>
    LET f == lastForensics IN
    /\ f.previousFaces = SubSeq(faceHistory, 1, Len(faceHistory) - 1)
    /\ \A i \in 1..Len(f.compared) : f.compared[i] # faceHistory[Len(faceHistory)]
    /\ IF Len(f.previousFaces) < MotionMinPrior
         THEN f.motionScore = 0 /\ f.compared = <<>>
         ELSE f.compared = SubSeq(f.previousFaces,
                                  Len(f.previousFaces) - MotionCompared + 1,
                                  Len(f.previousFaces))

\* C28: the face-crop history holds at most 5 crops, namely the clones made by
\* the latest pushes in push order; every clone pushed earlier has been
\* disposed exactly once and no clone still in the history has been disposed
\* (the tensor the attempt disposes at its end is not the clone it pushed).
C28_FaceHistoryBoundedFifo ==
  LET timesReleased(t) == Cardinality({i \in DOMAIN released : released[i] = t})
      kept == Len(faceHistory)
  IN /\ kept <= FaceHistoryCapacity
     /\ \A i \in 1..kept : faceHistory[i] = attempts - kept + i
     /\ \A k \in 1..attempts :
          timesReleased(CloneTensor(k)) = IF k > attempts - kept THEN 0 ELSE 1
     /\ \A i \in DOMAIN released :
          released[i].clone => released[i].id \in 1..(attempts - kept)

C28_Witness ==
  /\ faceHistory = <<2, 3, 4, 5, 6>>
  /\ ~released[Len(released)].clone
  /\ \E i \in DOMAIN released : released[i] = CloneTensor(1)
  /\ lastRun.path = "combined"
  /\ resets = 1
  /\ pc = "idle"

\* C29: a detectSpoofing call of an attempt launched after a reset compares
\* the current crop only with crops pushed since that reset.
C29_MotionReadsOwnSessionOnly ==
  [][(pc = "passive" /\ pc' # "passive" /\ launched >= 1
        /\ "compared" \in DOMAIN lastForensics') =>
       \A i \in 1..Len(lastForensics'.compared) :
         lastForensics'.compared[i] > sessionStart]_vars

\* C30: in the stage complete the progress is 100, and a step from it either
\* is a reset, which goes back to face_detection, or keeps the stage, the
\* progress and the three gesture flags, whatever frame it processes.
C30_CompleteIsTerminal ==
  [][currentAction = "complete" =>
       /\ actionProgress = 100
       /\ IF resets' = resets + 1
            THEN currentAction' = "face_detection"
            ELSE /\ currentAction' = "complete"
                 /\ actionProgress' = 100
                 /\ UNCHANGED <<blinkDetected, headTurnDetected, smileDetected>>]_vars

C30_Witness ==
  /\ currentAction = "complete"
  /\ actionStartTime # NoTime
  /\ now >= actionStartTime + DwellMs
  /\ lastOp = "frame"
  /\ lastFrame = Neutral
  /\ faceLandmarks = Neutral
  /\ actionProgress = 100
  /\ smileDetected

\* C31: every processed frame that supplies landmarks pushes its eye aspect
\* ratio into the blink history, in every stage and on either side of the
\* dwell guard.  (A step that changes lastFrame is a frame step.)
C31_BlinkHistoryEveryFrame ==
  [][(lastFrame' # lastFrame /\ lastFrame' # NoFace /\ lastOp' = "frame"
        /\ resets' = resets) =>
       blinkHistory' = PushBlink(blinkHistory, lastFrame'.ear)]_vars

\* C32: an attempt is inside detectLiveness, and a verdict is published or
\* logged, only when initializeModel has run to its end and set
\* isModelLoaded, which is never cleared again; a call made before that, or
\* after a failed initialization, sets the error 'Model not loaded', starts
\* nothing and publishes nothing.
C32_NoInferenceBeforeWarmUp ==
  [][/\ pc' # "idle" => (isModelLoaded' /\ modelInit' = "done")
     /\ isModelLoaded => isModelLoaded'
     /\ isModelLoaded' => modelInit' = "done"
     /\ (verdictLog' # verdictLog \/ attempts' # attempts) => isModelLoaded
     /\ (launched' = launched + 1 /\ ~isModelLoaded /\ pc = "idle") =>
          /\ pc' = "idle"
          /\ detectionResult' = Null
          /\ error' = "Model not loaded" \/ UNCHANGED <<error, lastRun>>]_vars

C32_Witness ==
  /\ modelInit = "done"
  /\ ~isModelLoaded
  /\ currentAction = "complete"
  /\ launched = 1
  /\ lastRun = [path |-> "not_loaded"]
  /\ error = "Model not loaded"
  /\ detectionResult = Null
  /\ attempts = 0

\* C33: once the cleanup of the face-detection hook has run, no frame is
\* sent to the landmark extractor any more.
C33_LoopStopsAfterCleanup ==
  frameLoop.closed => ~frameLoop.sentAfterClose

\* C34: without a video or without landmarks extractFaceFromVideo gives no
\* crop and computes no box.  Otherwise, when every landmark lies in [0, 1],
\* the box is ordered and inside the frame, contains every landmark, and each
\* side lies 20% of the extent of the landmarks beyond them or on the border
\* of the frame.
C34_CropBoxPaddedAndClamped ==
  lastExtraction.called =>
    LET e == lastExtraction
        xs == {p.x : p \in e.landmarks}
        ys == {p.y : p \in e.landmarks}
    IN /\ (~e.videoElement \/ e.landmarks = {}) <=> ~e.computed
       /\ ~e.computed => ~e.tensor.present
       /\ (e.computed /\ \A p \in e.landmarks :
                           p.x \in 0..CoordinateUnit /\ p.y \in 0..CoordinateUnit) =>
            /\ 0 <= e.box.minX /\ e.box.minX <= e.box.maxX /\ e.box.maxX <= CoordinateUnit
            /\ 0 <= e.box.minY /\ e.box.minY <= e.box.maxY /\ e.box.maxY <= CoordinateUnit
            /\ \A p \in e.landmarks :
                 /\ e.box.minX <= p.x /\ p.x <= e.box.maxX
                 /\ e.box.minY <= p.y /\ p.y <= e.box.maxY
            /\ e.box.minX = 0 \/ 5 * (MinOf(xs) - e.box.minX) = MaxOf(xs) - MinOf(xs)
            /\ e.box.maxX = CoordinateUnit
                 \/ 5 * (e.box.maxX - MaxOf(xs)) = MaxOf(xs) - MinOf(xs)
            /\ e.box.minY = 0 \/ 5 * (MinOf(ys) - e.box.minY) = MaxOf(ys) - MinOf(ys)
            /\ e.box.maxY = CoordinateUnit
                 \/ 5 * (e.box.maxY - MaxOf(ys)) = MaxOf(ys) - MinOf(ys)

C34_Witness ==
  /\ lastExtraction.called /\ lastExtraction.computed
  /\ lastExtraction.landmarks = {[x |-> 0, y |-> 50], [x |-> 50, y |-> 100]}
  /\ lastExtraction.box = [minX |-> 0, minY |-> 40, maxX |-> 60, maxY |-> 100]
  /\ lastExtraction.tensor = Crop

\* C35: a MediaPipe CDN request that has a cached response is answered with
\* it and the network is not used; otherwise the network is used, its
\* response is returned and is stored exactly when its status is 200, and a
\* failed fetch is answered with status 503 and stores nothing.  Every
\* request gets a response and no stored response has a status other than 200.
C35_CdnCacheFirst ==
  /\ \A request \in CdnRequests : dynamicCache[request] \in {NotCached, 200}
  /\ lastFetch.handled =>
       LET f == lastFetch
           hit == f.cachedBefore # NotCached
       IN /\ f.response.status # NotCached
          /\ f.networkUsed <=> ~hit
          /\ hit => /\ f.response = [status |-> f.cachedBefore, from |-> "cache"]
                     /\ dynamicCache[f.request] = f.cachedBefore
          /\ (~hit /\ f.network.ok) =>
                /\ f.response = [status |-> f.network.status, from |-> "network"]
                /\ (dynamicCache[f.request] # NotCached) <=> (f.network.status = 200)
          /\ (~hit /\ ~f.network.ok) =>
                /\ f.response = [status |-> 503, from |-> "fallback"]
                /\ dynamicCache[f.request] = NotCached

C35_Witness ==
  /\ lastFetch.handled
  /\ lastFetch.request = "face_mesh.binarypb"
  /\ lastFetch.cachedBefore = 200
  /\ lastFetch.network = [ok |-> FALSE, status |-> 0]
  /\ lastFetch.response.from = "cache"
  /\ dynamicCache["face_mesh.js"] = NotCached

\* C36: a result is displayed only while the sequencer of the session is in
\* the stage complete: a reset empties it and it stays empty until the
\* gestures have been completed again.
C36_ResultFromOwnSession ==
  detectionResult # Null => currentAction = "complete"

\* C37: in every state the progress is 0, 25, 50, 75, 100 in the stages
\* face_detection, blink, head_turn, smile, complete, and each gesture flag
\* is set exactly in the stages after the stage of its gesture.
C37_StageProgressFlagsAgree ==
  /\ currentAction \in {"face_detection", "blink", "head_turn", "smile", "complete"}
  /\ actionProgress = CASE currentAction = "face_detection" -> 0
                         [] currentAction = "blink" -> 25
                         [] currentAction = "head_turn" -> 50
                         [] currentAction = "smile" -> 75
                         [] currentAction = "complete" -> 100
  /\ blinkDetected <=> currentAction \in {"head_turn", "smile", "complete"}
  /\ headTurnDetected <=> currentAction \in {"smile", "complete"}
  /\ smileDetected <=> currentAction = "complete"

C37_Witness ==
  /\ resets = 1
  /\ lastOp = "reset"
  /\ currentAction = "face_detection"
  /\ actionProgress = 0
  /\ ~smileDetected
  /\ pc = "inference"
  /\ faceLandmarks = Smiling

\* C38: a run that has set isProcessing clears it again; the step that ends
\* a run disposes the face tensor extracted for it, and when the run ends
\* without a verdict the displayed result is empty afterwards.
C38_RunEndsAndReleases ==
  /\ (isProcessing ~> ~isProcessing)
  /\ [][(pc # "idle" /\ pc' = "idle") =>
          /\ isProcessing /\ ~isProcessing'
          /\ Len(released') > Len(released)
          /\ ~released'[Len(released')].clone
          /\ \A i \in DOMAIN released : released[i] # released'[Len(released')]
          /\ lastRun'.path = "failed" => detectionResult' = Null]_vars

C38_Witness ==
  /\ pc = "idle"
  /\ ~isProcessing
  /\ lastRun = [path |-> "failed", cause |-> "invalid output"]
  /\ detectionResult = Null
  /\ released # <<>>
  /\ released[Len(released)] = SourceTensor(1)
  /\ currentAction = "complete"

\* C39: a frame whose mouth height is 0 never takes the sequencer out of the
\* smile stage, and a frame whose nose-to-right-ear distance is 0 never takes
\* it out of the head_turn stage: the detector of the stage, when it is
\* called on such a frame, answers false.
C39_DegenerateLandmarksRejected ==
  [][(lastFrame' # NoFace /\ resets' = resets) =>
       /\ (currentAction = "smile" /\ lastFrame'.mouthHeight = 0) =>
            (currentAction' = "smile" /\ lastDetector' \in {"not_run", "false"})
       /\ (currentAction = "head_turn" /\ lastFrame'.rightDistance = 0) =>
            (currentAction' = "head_turn" /\ lastDetector' \in {"not_run", "false"})]_vars

====
